---- MODULE Spec2Model ----
(***************************************************************************)
(* Model of the structural-health-monitoring backend in src/main.py: the   *)
(* four tables (bridges, sensors, measurements, kpis), the admin upsert /  *)
(* delete endpoints, the dashboard, the trend summary and the CSV export.  *)
(*                                                                         *)
(* The database is the one the module opens when DATABASE_URL is unset,    *)
(* SQLite through SQLAlchemy: the declared foreign keys are not enforced   *)
(* (no PRAGMA foreign_keys), a new kpis row gets the greatest id plus one, *)
(* NULL sorts before every value, and a DateTime is stored and compared    *)
(* as its year .. microsecond fields, without its tzinfo.                  *)
(*                                                                         *)
(* The handlers are plain functions, which FastAPI runs on a thread pool,   *)
(* each with a Session of its own, and the SQLite driver opens no          *)
(* transaction for a SELECT.  A step is therefore one statement a handler  *)
(* sends to the database, with the Python code that follows it up to the   *)
(* next statement: one SELECT, or the INSERT / UPDATE / DELETE statements  *)
(* of one flush together with their COMMIT.  The other steps are one       *)
(* statement of the external DataFlow writer and one next() on the body    *)
(* iterator of a streaming response.  Steps of different requests          *)
(* interleave.                                                             *)
(*                                                                         *)
(* The Session is the ORM's: an object it has loaded and still holds is    *)
(* returned as it is by a later query of the same call, a commit expires   *)
(* every object, a flush writes the columns whose value changed, an UPDATE *)
(* that matches no row raises and a DELETE that matches no row does not.   *)
(*                                                                         *)
(* Conventions.  A Python str on which the code does character work is a   *)
(* sequence of one-character strings; the characters are those a string    *)
(* of this notation can hold, U+0020 .. U+00FF.  A nullable column or an   *)
(* Optional payload field is <<>> (None) or <<v>> (a value).  A Float      *)
(* column holds an integer n standing for the float n.0.  A naive datetime *)
(* is <<year, month, day, hour, minute, second, microsecond>>.             *)
(***************************************************************************)
EXTENDS Integers, Sequences, FiniteSets, TLC

VARIABLES
    bridges,        \* table "bridges": set of BridgeDB rows
    sensors,        \* table "sensors": set of SensorDB rows
    measurements,   \* table "measurements": set of MeasurementDB rows
    kpis,           \* table "kpis": set of KpiDB rows
    resp,           \* the HTTP call completed by the last step and its response
    calls,          \* the handlers in progress: position and local variables
    streams         \* the body iterators of the /export/csv responses

vars == <<bridges, sensors, measurements, kpis, resp, calls, streams>>

----------------------------------------------------------------------------
(* Python values *)

None == <<>>
Some(v) == <<v>>

\* truthiness of an Optional[str] (payload.id, payload.bridge_id,
\* payload.image_data): None and the empty string are falsy
Truthy(o) == o # None /\ o[1] # <<>>

\* "x.status if x.status else 'ok'" on a nullable status column
StatusOrOk(o) == IF o # None /\ o[1] # "" THEN o[1] ELSE "ok"

Min(a, b) == IF a < b THEN a ELSE b

\* the cased letters of U+0020 .. U+00FF: UpperChars[i].lower() is
\* LowerChars[i]
UpperChars == <<"A","B","C","D","E","F","G","H","I","J","K","L","M",
                "N","O","P","Q","R","S","T","U","V","W","X","Y","Z",
                "À","Á","Â","Ã","Ä","Å","Æ","Ç","È","É","Ê","Ë","Ì","Í","Î",
                "Ï","Ð","Ñ","Ò","Ó","Ô","Õ","Ö","Ø","Ù","Ú","Û","Ü","Ý","Þ">>
LowerChars == <<"a","b","c","d","e","f","g","h","i","j","k","l","m",
                "n","o","p","q","r","s","t","u","v","w","x","y","z",
                "à","á","â","ã","ä","å","æ","ç","è","é","ê","ë","ì","í","î",
                "ï","ð","ñ","ò","ó","ô","õ","ö","ø","ù","ú","û","ü","ý","þ">>
DigitChars == <<"0","1","2","3","4","5","6","7","8","9">>

\* the other characters of U+0020 .. U+00FF that str.isalnum() accepts:
\* letters without case mapping in that range, superscripts and fractions
OtherAlnumChars == <<"ª","²","³","µ","¹","º","¼","½","¾","ß","ÿ">>

Range(f) == {f[i] : i \in DOMAIN f}

\* str.isalnum() of one character
IsAlnum(c) ==
    c \in Range(UpperChars) \cup Range(LowerChars) \cup Range(DigitChars)
            \cup Range(OtherAlnumChars)

\* str.lower() of one character
LowerChar(c) ==
    IF c \in Range(UpperChars)
    THEN LowerChars[CHOOSE i \in DOMAIN UpperChars : UpperChars[i] = c]
    ELSE c

\* str.endswith
EndsWith(s, suffix) ==
    /\ Len(suffix) <= Len(s)
    /\ SubSeq(s, Len(s) - Len(suffix) + 1, Len(s)) = suffix

\* str.replace(old, new) for one-character old and new
ReplaceChar(s, old, new) == [i \in 1..Len(s) |-> IF s[i] = old THEN new ELSE s[i]]

\* "br-" + the first 8 alphanumeric characters of the name, lowered
generate_bridge_id(name) ==
    LET alnum == SelectSeq(name, IsAlnum)
        clean_name == [i \in 1..Len(alnum) |-> LowerChar(alnum[i])]
    IN  <<"b", "r", "-">> \o SubSeq(clean_name, 1, Min(8, Len(clean_name)))

----------------------------------------------------------------------------
(* Bounds *)

\* HTTP calls that are between their first statement and their response at a
\* time
MaxInFlight == 2

\* /export/csv responses that are being streamed at a time
MaxStreams == 2

\* rows of the kpis table
MaxKpiId == 2

----------------------------------------------------------------------------
(* The tables *)

\* BridgeDB(id=..., name=..., region=..., lat=..., lng=..., image_data=...)
\* with the column default of admin_status
BridgeDB(id, name, location, image_data) ==
    [id |-> id, name |-> name, region |-> location.region, lat |-> location.lat,
     lng |-> location.lng, image_data |-> image_data, admin_status |-> "active"]

\* SensorDB(id=...) with its column defaults; the handler assigns the
\* remaining columns before the commit
SensorDB(id) ==
    [id |-> id, bridge_id |-> <<>>, alias |-> "", pos_x |-> 0, pos_y |-> 0,
     odr |-> 125, range_g |-> 2, filter_type |-> "high-pass",
     health_battery |-> None, health_rssi |-> None, last_seen |-> None,
     status |-> Some("ok")]

\* db.query(T).filter(T.id == id).first() on a primary key
BridgeById(id) == {b \in bridges : b.id = id}
SensorById(id) == {s \in sensors : s.id = id}

\* the relationships BridgeDB.sensors, BridgeDB.kpis, SensorDB.measurements
SensorsOf(bridge_id) == {s \in sensors : s.bridge_id = bridge_id}
KpisOf(bridge_id) == {k \in kpis : k.bridge_id = bridge_id}
MeasurementsOf(sensor_id) == {m \in measurements : m.sensor_id = sensor_id}

\* dict[key] on the payload's location dict raises KeyError on a missing key
HasLocationKeys(location) == {"region", "lat", "lng"} \subseteq DOMAIN location

\* the value of resp after a step that completes no HTTP call
NoCall == [op |-> "none"]

\* a worker thread that runs no handler
Idle == [op |-> "idle", pc |-> "idle"]

\* a slot of streams that holds no response
NoStream == [pc |-> "idle"]

Init ==
    /\ bridges = {}
    /\ sensors = {}
    /\ measurements = {}
    /\ kpis = {}
    /\ resp = NoCall
    /\ calls = [i \in 1..MaxInFlight |-> Idle]
    /\ streams = [i \in 1..MaxStreams |-> NoStream]

----------------------------------------------------------------------------
(* Calls in flight.  A handler runs on a worker thread with a Session of its *)
(* own; calls[i] holds the handler's position (pc) and its local variables   *)
(* between two of its statements.                                             *)

\* the worker threads that run no handler
IdleWorkers == {i \in DOMAIN calls : calls[i] = Idle}

\* a handler is started with the local variables c
Begin(c) ==
    /\ IdleWorkers # {}
    /\ calls' = [calls EXCEPT
                   ![CHOOSE i \in IdleWorkers : \A j \in IdleWorkers : i <= j] = c]
    /\ resp' = NoCall

\* call i is the handler op at position pc
Running(i, op, pc) == i \in DOMAIN calls /\ calls[i].op = op /\ calls[i].pc = pc

\* the handler returns: FastAPI answers with the return value
Returned(op, req, body) == [op |-> op, req |-> req, code |-> 200, body |-> body]

\* an exception that escapes the handler: FastAPI answers 500 and the
\* session is closed without a commit
ServerError(op, req, exc) ==
    [op |-> op, req |-> req, code |-> 500, body |-> exc]

\* raise HTTPException(status_code=404, detail=...)
NotFound(op, req, detail) ==
    [op |-> op, req |-> req, code |-> 404, body |-> [detail |-> detail]]

\* call i ends with the response r
Answer(i, r) == calls' = [calls EXCEPT ![i] = Idle] /\ resp' = r

\* call i goes on as c; no response yet
Continue(i, c) == calls' = [calls EXCEPT ![i] = c] /\ resp' = NoCall

----------------------------------------------------------------------------
(* POST /admin/bridge *)

\* the row the unit of work writes for a loaded bridge: the UPDATE sets the
\* columns whose assigned value differs from the loaded one, on the row as it
\* is stored now
UpdatedBridge(now, loaded, payload) ==
    [now EXCEPT
       !.name = IF payload.name # loaded.name THEN payload.name ELSE @,
       !.region = IF payload.location.region # loaded.region
                  THEN payload.location.region ELSE @,
       !.lat = IF payload.location.lat # loaded.lat THEN payload.location.lat ELSE @,
       !.lng = IF payload.location.lng # loaded.lng THEN payload.location.lng ELSE @,
       !.image_data = IF Truthy(payload.image_data)
                         /\ payload.image_data # loaded.image_data
                      THEN payload.image_data ELSE @]

\* the handler up to its query: bridge is the row found, or None
CreateOrUpdateBridge(payload) ==
    LET bridge_id == IF Truthy(payload.id) THEN payload.id[1]
                     ELSE generate_bridge_id(payload.name)
        found == BridgeById(bridge_id)
    IN  /\ IF ~HasLocationKeys(payload.location)
           THEN /\ resp' = ServerError("create_or_update_bridge", payload, "KeyError")
                /\ UNCHANGED calls
           ELSE /\ Begin(
                      [op |-> "create_or_update_bridge", pc |-> "commit",
                       req |-> payload, bridge_id |-> bridge_id,
                       bridge |-> IF found = {} THEN None
                                  ELSE Some(CHOOSE b \in found : TRUE)])
        /\ UNCHANGED <<bridges, sensors, measurements, kpis, streams>>

\* db.commit(): the INSERT of the new bridge fails on an id stored meanwhile;
\* the UPDATE of a loaded bridge is issued when a column changed and fails
\* when it matches no row
CreateOrUpdateBridgeCommit(i) ==
    /\ Running(i, "create_or_update_bridge", "commit")
    /\ LET c == calls[i]
           now == BridgeById(c.bridge_id)
           next == [c EXCEPT !.pc = "refresh"]
       IN  IF c.bridge = None
           THEN IF now # {}
                THEN /\ Answer(i, ServerError(c.op, c.req, "IntegrityError"))
                     /\ UNCHANGED bridges
                ELSE /\ bridges' = bridges \cup
                            {BridgeDB(c.bridge_id, c.req.name, c.req.location,
                                      c.req.image_data)}
                     /\ Continue(i, next)
           ELSE IF UpdatedBridge(c.bridge[1], c.bridge[1], c.req) = c.bridge[1]
                THEN /\ Continue(i, next)
                     /\ UNCHANGED bridges
                ELSE IF now = {}
                THEN /\ Answer(i, ServerError(c.op, c.req, "StaleDataError"))
                     /\ UNCHANGED bridges
                ELSE /\ bridges' = (bridges \ now) \cup
                            {UpdatedBridge(b, c.bridge[1], c.req) : b \in now}
                     /\ Continue(i, next)
    /\ UNCHANGED <<sensors, measurements, kpis, streams>>

\* db.refresh(bridge) and the return
CreateOrUpdateBridgeRefresh(i) ==
    /\ Running(i, "create_or_update_bridge", "refresh")
    /\ LET c == calls[i]
       IN  IF BridgeById(c.bridge_id) = {}
           THEN Answer(i, ServerError(c.op, c.req, "InvalidRequestError"))
           ELSE Answer(i, Returned(c.op, c.req,
                                   [status |-> "success", bridge_id |-> c.bridge_id]))
    /\ UNCHANGED <<bridges, sensors, measurements, kpis, streams>>

----------------------------------------------------------------------------
(* POST /admin/sensor *)

\* the row inserted for a sensor the handler did not find
NewSensor(target_bridge_id, payload) ==
    [SensorDB(payload.id) EXCEPT !.bridge_id = target_bridge_id,
                                 !.alias = payload.alias,
                                 !.pos_x = payload.x,
                                 !.pos_y = payload.y,
                                 !.odr = payload.config.odr,
                                 !.range_g = payload.config.range]

\* the row the unit of work writes for a loaded sensor: the UPDATE sets the
\* columns whose assigned value differs from the loaded one
UpdatedSensor(now, loaded, target_bridge_id, payload) ==
    [now EXCEPT
       !.bridge_id = IF target_bridge_id # loaded.bridge_id
                     THEN target_bridge_id ELSE @,
       !.alias = IF payload.alias # loaded.alias THEN payload.alias ELSE @,
       !.pos_x = IF payload.x # loaded.pos_x THEN payload.x ELSE @,
       !.pos_y = IF payload.y # loaded.pos_y THEN payload.y ELSE @,
       !.odr = IF payload.config.odr # loaded.odr THEN payload.config.odr ELSE @,
       !.range_g = IF payload.config.range # loaded.range_g
                   THEN payload.config.range ELSE @]

\* the handler up to its bridge query
CreateOrUpdateSensor(payload) ==
    LET target_bridge_id == IF Truthy(payload.bridge_id) THEN payload.bridge_id[1]
                            ELSE generate_bridge_id(payload.bridge_info.name)
        bridge == BridgeById(target_bridge_id)
    IN  /\ IF bridge = {} /\ ~HasLocationKeys(payload.bridge_info.location)
           THEN /\ resp' = ServerError("create_or_update_sensor", payload, "KeyError")
                /\ UNCHANGED calls
           ELSE /\ Begin(
                      [op |-> "create_or_update_sensor",
                       pc |-> IF bridge = {} THEN "commit_bridge" ELSE "query_sensor",
                       req |-> payload, target_bridge_id |-> target_bridge_id,
                       sensor |-> None])
        /\ UNCHANGED <<bridges, sensors, measurements, kpis, streams>>

\* db.add(bridge); db.commit(): the INSERT of the implicit bridge
CreateOrUpdateSensorCommitBridge(i) ==
    /\ Running(i, "create_or_update_sensor", "commit_bridge")
    /\ LET c == calls[i]
       IN  IF BridgeById(c.target_bridge_id) # {}
           THEN /\ Answer(i, ServerError(c.op, c.req, "IntegrityError"))
                /\ UNCHANGED bridges
           ELSE /\ bridges' = bridges \cup
                       {BridgeDB(c.target_bridge_id, c.req.bridge_info.name,
                                 c.req.bridge_info.location, c.req.image_data)}
                /\ Continue(i, [c EXCEPT !.pc = "query_sensor"])
    /\ UNCHANGED <<sensors, measurements, kpis, streams>>

\* the sensor query: sensor is the row found, or None
CreateOrUpdateSensorQuery(i) ==
    /\ Running(i, "create_or_update_sensor", "query_sensor")
    /\ LET c == calls[i]
           found == SensorById(c.req.id)
       IN  Continue(i, [c EXCEPT !.pc = "commit",
                                 !.sensor = IF found = {} THEN None
                                            ELSE Some(CHOOSE s \in found : TRUE)])
    /\ UNCHANGED <<bridges, sensors, measurements, kpis, streams>>

\* the assignments and db.commit(): INSERT of a new sensor, or UPDATE of the
\* changed columns of a loaded one
CreateOrUpdateSensorCommit(i) ==
    /\ Running(i, "create_or_update_sensor", "commit")
    /\ LET c == calls[i]
           now == SensorById(c.req.id)
           next == [c EXCEPT !.pc = "return"]
       IN  IF c.sensor = None
           THEN IF now # {}
                THEN /\ Answer(i, ServerError(c.op, c.req, "IntegrityError"))
                     /\ UNCHANGED sensors
                ELSE /\ sensors' = sensors \cup {NewSensor(c.target_bridge_id, c.req)}
                     /\ Continue(i, next)
           ELSE IF UpdatedSensor(c.sensor[1], c.sensor[1], c.target_bridge_id, c.req)
                      = c.sensor[1]
                THEN /\ Continue(i, next)
                     /\ UNCHANGED sensors
                ELSE IF now = {}
                THEN /\ Answer(i, ServerError(c.op, c.req, "StaleDataError"))
                     /\ UNCHANGED sensors
                ELSE /\ sensors' = (sensors \ now) \cup
                            {UpdatedSensor(s, c.sensor[1], c.target_bridge_id, c.req) :
                                s \in now}
                     /\ Continue(i, next)
    /\ UNCHANGED <<bridges, measurements, kpis, streams>>

\* the return: sensor.id is read from the row again, the commit having
\* expired the instance
CreateOrUpdateSensorReturn(i) ==
    /\ Running(i, "create_or_update_sensor", "return")
    /\ LET c == calls[i]
       IN  IF SensorById(c.req.id) = {}
           THEN Answer(i, ServerError(c.op, c.req, "ObjectDeletedError"))
           ELSE Answer(i, Returned(c.op, c.req,
                                   [status |-> "success", sensor_id |-> c.req.id,
                                    bridge_id |-> c.target_bridge_id]))
    /\ UNCHANGED <<bridges, sensors, measurements, kpis, streams>>

----------------------------------------------------------------------------
(* DELETE /admin/bridge/{bridge_id} and DELETE /admin/sensor/{sensor_id} *)

\* the primary keys of a set of measurements rows
MeasurementKeys(rows) == {<<m.ts, m.sensor_id>> : m \in rows}

\* the handler up to its query
DeleteBridge(bridge_id) ==
    /\ IF BridgeById(bridge_id) = {}
       THEN /\ resp' = NotFound("delete_bridge", bridge_id, "Puente no encontrado")
            /\ UNCHANGED calls
       ELSE /\ Begin(
                  [op |-> "delete_bridge", pc |-> "load_sensors", req |-> bridge_id,
                   unvisited |-> {}, del_sensors |-> {}, del_measurements |-> {},
                   del_kpis |-> {}])
    /\ UNCHANGED <<bridges, sensors, measurements, kpis, streams>>

\* db.delete(bridge) follows the delete cascade: it loads bridge.sensors
DeleteBridgeLoadSensors(i) ==
    /\ Running(i, "delete_bridge", "load_sensors")
    /\ LET c == calls[i]
           ids == {s.id : s \in SensorsOf(c.req)}
       IN  Continue(i, [c EXCEPT !.unvisited = ids, !.del_sensors = ids,
                                 !.pc = IF ids = {} THEN "load_kpis"
                                        ELSE "load_measurements"])
    /\ UNCHANGED <<bridges, sensors, measurements, kpis, streams>>

\* ... then the measurements of each loaded sensor, one query per sensor in
\* the order of the collection
DeleteBridgeLoadMeasurements(i) ==
    /\ Running(i, "delete_bridge", "load_measurements")
    /\ LET c == calls[i]
       IN  \E sensor_id \in c.unvisited :
              Continue(i, [c EXCEPT
                 !.unvisited = @ \ {sensor_id},
                 !.del_measurements = @ \cup MeasurementKeys(MeasurementsOf(sensor_id)),
                 !.pc = IF c.unvisited = {sensor_id} THEN "load_kpis" ELSE @])
    /\ UNCHANGED <<bridges, sensors, measurements, kpis, streams>>

\* ... then bridge.kpis
DeleteBridgeLoadKpis(i) ==
    /\ Running(i, "delete_bridge", "load_kpis")
    /\ LET c == calls[i]
       IN  Continue(i, [c EXCEPT !.del_kpis = {k.id : k \in KpisOf(c.req)},
                                 !.pc = "commit"])
    /\ UNCHANGED <<bridges, sensors, measurements, kpis, streams>>

\* db.commit(): one DELETE by primary key per loaded row and one for the
\* bridge; a DELETE that matches no row is not an error
DeleteBridgeCommit(i) ==
    /\ Running(i, "delete_bridge", "commit")
    /\ LET c == calls[i]
       IN  /\ measurements' = {m \in measurements :
                                  <<m.ts, m.sensor_id>> \notin c.del_measurements}
           /\ sensors' = {s \in sensors : s.id \notin c.del_sensors}
           /\ kpis' = {k \in kpis : k.id \notin c.del_kpis}
           /\ bridges' = {b \in bridges : b.id # c.req}
           /\ Answer(i, Returned(c.op, c.req, [status |-> "deleted", id |-> c.req]))
    /\ UNCHANGED streams

\* the handler up to its query
DeleteSensor(sensor_id) ==
    /\ IF SensorById(sensor_id) = {}
       THEN /\ resp' = NotFound("delete_sensor", sensor_id, "Sensor no encontrado")
            /\ UNCHANGED calls
       ELSE /\ Begin(
                  [op |-> "delete_sensor", pc |-> "load_measurements",
                   req |-> sensor_id, del_measurements |-> {}])
    /\ UNCHANGED <<bridges, sensors, measurements, kpis, streams>>

\* db.delete(sensor) loads sensor.measurements for the delete cascade
DeleteSensorLoadMeasurements(i) ==
    /\ Running(i, "delete_sensor", "load_measurements")
    /\ LET c == calls[i]
       IN  Continue(i, [c EXCEPT
              !.del_measurements = MeasurementKeys(MeasurementsOf(c.req)),
              !.pc = "commit"])
    /\ UNCHANGED <<bridges, sensors, measurements, kpis, streams>>

\* db.commit(): DELETE of the loaded measurements and of the sensor
DeleteSensorCommit(i) ==
    /\ Running(i, "delete_sensor", "commit")
    /\ LET c == calls[i]
       IN  /\ measurements' = {m \in measurements :
                                  <<m.ts, m.sensor_id>> \notin c.del_measurements}
           /\ sensors' = {s \in sensors : s.id # c.req}
           /\ Answer(i, Returned(c.op, c.req, [status |-> "deleted"]))
    /\ UNCHANGED <<bridges, kpis, streams>>

----------------------------------------------------------------------------
(* The DataFlow writer: rows written to the tables from outside the API *)

\* INSERT of one measurements row; (ts, sensor_id) is the primary key.  The
\* foreign key to sensors is declared and not enforced.
InsertMeasurement(m) ==
    /\ \A q \in measurements : ~(q.ts = m.ts /\ q.sensor_id = m.sensor_id)
    /\ measurements' = measurements \cup {m}
    /\ resp' = NoCall
    /\ UNCHANGED <<bridges, sensors, kpis, calls, streams>>

\* the greatest of a non-empty set of ids
MaxOf(ids) == CHOOSE i \in ids : (i + 1) \notin ids /\ \A j \in ids : j <= i

\* the integer primary key of a new kpis row
NextKpiId == IF kpis = {} THEN 1 ELSE 1 + MaxOf({k.id : k \in kpis})

\* INSERT of one kpis row.  The foreign key to bridges is declared and not
\* enforced.
InsertKpi(k) ==
    /\ kpis' = kpis \cup {[id |-> NextKpiId] @@ k}
    /\ resp' = NoCall
    /\ UNCHANGED <<bridges, sensors, measurements, calls, streams>>

\* UPDATE of a sensor's health snapshot and status
UpdateSensorHealth(sensor_id, h) ==
    /\ \E s \in SensorById(sensor_id) :
          sensors' = (sensors \ {s}) \cup
             {[s EXCEPT !.health_battery = h.health_battery,
                        !.health_rssi = h.health_rssi,
                        !.last_seen = h.last_seen,
                        !.status = h.status]}
    /\ resp' = NoCall
    /\ UNCHANGED <<bridges, measurements, kpis, calls, streams>>

----------------------------------------------------------------------------
(* datetime *)

\* the order of naive datetimes (datetime.__lt__, and ORDER BY on the text
\* 'YYYY-MM-DD HH:MM:SS.ffffff' a DateTime column holds) as the order of the
\* key <<day, second of the day, microsecond>>
DtKey(dt) ==
    <<(dt[1] * 12 + (dt[2] - 1)) * 31 + (dt[3] - 1),
      (dt[4] * 60 + dt[5]) * 60 + dt[6],
      dt[7]>>

KeyLess(a, b) ==
    \/ a[1] < b[1]
    \/ a[1] = b[1] /\ (a[2] < b[2] \/ (a[2] = b[2] /\ a[3] < b[3]))

\* the key of a nullable DateTime column: NULL sorts before every value
NullableKey(o) == IF o = None THEN <<-1, 0, 0>> ELSE DtKey(o[1])

Pad2(n) == <<DigitChars[(n \div 10) + 1], DigitChars[(n % 10) + 1]>>
Pad4(n) == Pad2(n \div 100) \o Pad2(n % 100)
Pad6(n) == Pad2(n \div 10000) \o Pad4(n % 10000)

\* datetime.isoformat(): the fraction is written when microsecond is not 0
IsoFormat(dt) ==
    Pad4(dt[1]) \o <<"-">> \o Pad2(dt[2]) \o <<"-">> \o Pad2(dt[3]) \o <<"T">>
        \o Pad2(dt[4]) \o <<":">> \o Pad2(dt[5]) \o <<":">> \o Pad2(dt[6])
        \o (IF dt[7] # 0 THEN <<".">> \o Pad6(dt[7]) ELSE <<>>)

\* datetime.strftime("%H:%M")
HourMinute(dt) == Pad2(dt[4]) \o <<":">> \o Pad2(dt[5])

----------------------------------------------------------------------------
(* Queries *)

\* the arrangements of a finite set as a sequence
Perms(S) ==
    {f \in [1..Cardinality(S) -> S] : \A i, j \in 1..Cardinality(S) :
                                          f[i] = f[j] => i = j}

\* the rows of S that share their timestamp with another row of S: the
\* order of such rows under ORDER BY timestamp is the database's choice
Tied(S) ==
    IF Cardinality({k.timestamp : k \in S}) = Cardinality(S) THEN {}
    ELSE {k \in S : \E q \in S : q.id # k.id /\ q.timestamp = k.timestamp}

\* position of a row in the database's choice of order among tied rows
TiePos(tie, id) ==
    IF \E i \in DOMAIN tie : tie[i].id = id
    THEN CHOOSE i \in DOMAIN tie : tie[i].id = id
    ELSE 0

\* the sequence that holds row r at position p for each <<p, r>> of placed
Place(placed) ==
    [i \in 1..Cardinality(placed) |-> (CHOOSE p \in placed : p[1] = i)[2]]

\* query(MeasurementDB).filter(sensor_id == ...).order_by(desc(ts)): the rows
\* of one sensor have distinct ts (primary key)
OrderByTsDesc(S) ==
    LET keyed == {<<DtKey(m.ts), m>> : m \in S}
        keys == {p[1] : p \in keyed}
    IN  Place({<<1 + Cardinality({j \in keys : KeyLess(p[1], j)}), p[2]>> : p \in keyed})

\* variant: ORDER BY ts descending
OrderByTsAsc_Desc(S) == OrderByTsDesc(S)

\* query(MeasurementDB).filter(...).order_by(ts)
OrderByTsAsc(S) ==
    LET keyed == {<<DtKey(m.ts), m>> : m \in S}
        keys == {p[1] : p \in keyed}
    IN  Place({<<1 + Cardinality({j \in keys : KeyLess(j, p[1])}), p[2]>> : p \in keyed})

\* query(KpiDB).filter(...).order_by(desc(timestamp)); tie is the order the
\* database gives to rows of equal timestamp; rows without timestamp come
\* last
OrderByTimestampDesc(S, tie) ==
    LET keyed == {<<NullableKey(k.timestamp), TiePos(tie, k.id), k>> : k \in S}
        keys == {<<p[1], p[2]>> : p \in keyed}
    IN  Place({<<1 + Cardinality({j \in keys :
                       \/ KeyLess(p[1], j[1])
                       \/ j[1] = p[1] /\ j[2] < p[2]}), p[3]>> :
               p \in keyed})

\* Query.limit(n)
Limit(seq, n) == SubSeq(seq, 1, Min(n, Len(seq)))

\* reversed(list)
Reversed(seq) == [i \in 1..Len(seq) |-> seq[Len(seq) + 1 - i]]

----------------------------------------------------------------------------
(* Dashboard: GET / *)

\* values of KpiDB.kpi_type
StructuralHealth == <<"s","t","r","u","c","t","u","r","a","l","H","e","a","l","t","h">>
AccelZ == <<"a","c","c","e","l","Z">>
AccelGlob == <<"a","c","c","e","l","G","l","o","b">>
AiAnalysis == <<"a","i","A","n","a","l","y","s","i","s">>
AccelX == <<"a","c","c","e","l","X">>
AccelY == <<"a","c","c","e","l","Y">>
NaturalFreq == <<"n","a","t","u","r","a","l","F","r","e","q">>

\* the keys of bridge_obj["kpis"], in dict order
KpiSlots == <<StructuralHealth, AccelZ, AccelGlob, AiAnalysis>>

\* the default entries of bridge_obj["kpis"] (labels without diacritics)
DefaultKpi(bridge_id, k_type) ==
    CASE k_type = StructuralHealth ->
            [id |-> bridge_id \o <<"-","k","p","i","-","h">>, score |-> 100, trend |-> "stable",
             label |-> "Integridad Estructural", unit |-> "%", status |-> "ok"]
      [] k_type = AccelZ ->
            [id |-> bridge_id \o <<"-","k","p","i","-","z">>, val |-> 0, unit |-> "g", status |-> "ok",
             label |-> "Vibracion Global (Z)", trend |-> "flat"]
      [] k_type = AccelGlob ->
            [id |-> bridge_id \o <<"-","k","p","i","-","g">>, val |-> 0, unit |-> "g", status |-> "ok",
             label |-> "Vibracion Global", trend |-> "flat"]
      [] k_type = AiAnalysis ->
            [id |-> bridge_id \o <<"-","k","p","i","-","a","i">>, type |-> "text", status |-> "ok",
             label |-> "Diagnostico IA", text |-> "Esperando datos suficientes...",
             confidence |-> 0, lastModelUpdate |-> None]

\* kpi_data built from the row k_db of type k_type
KpiData(bridge_id, k_type, k_db) ==
    LET base == [id |-> bridge_id \o <<"-">> \o k_type,
                 status |-> StatusOrOk(k_db.status),
                 label |-> DefaultKpi(bridge_id, k_type).label,
                 lastModelUpdate |-> IF k_db.timestamp # None
                                     THEN Some(IsoFormat(k_db.timestamp[1]))
                                     ELSE None]
    IN  IF k_type = AiAnalysis
        THEN base @@ [type |-> "text", text |-> k_db.text_value,
                      confidence |-> k_db.confidence]
        ELSE base @@ [val |-> IF k_db.value # None THEN k_db.value[1] ELSE 0,
                      unit |-> DefaultKpi(bridge_id, k_type).unit,
                      score |-> IF k_db.value # None THEN k_db.value[1] ELSE 0,
                      trend |-> "stable"]

\* latest_kpis_map.get(k_type): the first row of the type in kpis_db, or None
LatestKpi(kpis_db, k_type) ==
    LET idx == {i \in DOMAIN kpis_db : kpis_db[i].kpi_type = k_type}
    IN  IF idx = {} THEN None
        ELSE Some(kpis_db[CHOOSE i \in idx : \A j \in idx : i <= j])

\* variant: a later "warn" replaces an earlier "alert"
WorseStatus_WarnOverAlert(bridge_status, status) ==
    IF status = "alert" THEN "alert"
    ELSE IF status = "warn" THEN "warn"
    ELSE bridge_status

\* one update of bridge_status by a KPI or sensor status
WorseStatus(bridge_status, status) ==
    IF status = "alert" THEN "alert"
    ELSE IF status = "warn" /\ bridge_status # "alert" THEN "warn"
    ELSE bridge_status

\* bridge_status after the statuses of a sequence were visited in order
RECURSIVE FoldStatus(_, _)
FoldStatus(bridge_status, statuses) ==
    IF statuses = <<>> THEN bridge_status
    ELSE FoldStatus(WorseStatus(bridge_status, Head(statuses)), Tail(statuses))

\* the object a query of the session returns for a row: the object of the
\* same primary key that the session holds, as it was loaded, or else a new
\* object of the row
Loaded(held, row, Key(_)) ==
    IF \E o \in held : Key(o) = Key(row)
    THEN CHOOSE o \in held : Key(o) = Key(row)
    ELSE row

KpiKey(k) == k.id
SensorKey(s) == s.id
MeasurementKey(m) == <<m.ts, m.sensor_id>>

\* query(MeasurementDB).filter(sensor_id == s.id).order_by(desc(ts)).first();
\* held is the previous last_meas, which the handler still refers to
LastMeasurement(sensor_id, held) ==
    LET rows == OrderByTsDesc(MeasurementsOf(sensor_id))
    IN  IF rows = <<>> THEN None
        ELSE Some(Loaded({o[1] : o \in {held} \ {None}}, rows[1], MeasurementKey))

\* the entry of bridge_obj["kpis"] for k_type after step 3
KpiSlot(bridge_id, kpis_db, k_type) ==
    LET k_db == LatestKpi(kpis_db, k_type)
    IN  IF k_db # None THEN KpiData(bridge_id, k_type, k_db[1])
        ELSE DefaultKpi(bridge_id, k_type)

\* the statuses step 3 visits: those of the slots that have a row, in dict
\* order
KpiStatuses(bridge_id, kpis_db) ==
    LET found == SelectSeq(KpiSlots, LAMBDA k_type : LatestKpi(kpis_db, k_type) # None)
    IN  [i \in 1..Len(found) |-> KpiSlot(bridge_id, kpis_db, found[i]).status]

\* node_obj of sensor s and its last measurement (alarm message without
\* diacritics)
NodeObj(s, last_meas) ==
    LET status == StatusOrOk(s.status)
    IN  [id |-> s.id, alias |-> s.alias, x |-> s.pos_x, y |-> s.pos_y,
         status |-> status,
         config |-> [odr |-> s.odr, range |-> s.range_g],
         health |-> [battery |-> IF s.health_battery # None
                                 THEN s.health_battery[1] ELSE 0,
                     signalStrength |-> IF s.health_rssi # None
                                        THEN s.health_rssi[1] ELSE 0,
                     boardTemp |-> 0,
                     lastSeen |-> IF s.last_seen # None
                                  THEN Some(IsoFormat(s.last_seen[1])) ELSE None],
         telemetry |-> IF last_meas = None
                       THEN [accel_rms |-> [x |-> 0, y |-> 0, z |-> 0],
                             sensorTemp |-> 0]
                       ELSE [accel_rms |-> [x |-> last_meas[1].acc_x,
                                            y |-> last_meas[1].acc_y,
                                            z |-> last_meas[1].acc_z],
                             sensorTemp |-> last_meas[1].temp],
         alarms |-> IF status = "alert"
                    THEN <<[type |-> "HEALTH", severity |-> "alert",
                            msg |-> "Fallo de comunicacion/bateria"]>>
                    ELSE <<>>]

\* bridge_obj of bridge b when it is appended to dashboard_data
BridgeObj(b, kpi_slots, bridge_status, last_update_global, nodes) ==
    [id |-> b.id,
     nombre |-> b.name,
     ubicacion |-> [region |-> b.region, lat |-> b.lat, lng |-> b.lng],
     status |-> bridge_status,
     lastUpdate |-> IF last_update_global # None
                    THEN Some(IsoFormat(last_update_global[1])) ELSE None,
     meta |-> [tipo |-> "Estructura Monitorizada", largo |-> "N/A",
               imagen |-> IF Truthy(b.image_data) THEN b.image_data[1]
                          ELSE <<"/","p","u","e","n","t","e",".","p","n","g">>],
     kpis |-> kpi_slots,
     nodes |-> nodes]

\* GET /: the handler up to its query of the bridges; bridge_seq is the order
\* in which the database returns the rows
GetDashboardData ==
    /\ \E bridge_seq \in Perms(bridges) :
          IF bridge_seq = <<>>
          THEN /\ resp' = Returned("get_dashboard_data", None, <<>>)
               /\ UNCHANGED calls
          ELSE Begin([op |-> "get_dashboard_data", pc |-> "query_kpis",
                      req |-> None, bridges_db |-> bridge_seq,
                      dashboard_data |-> <<>>, kpis_db |-> <<>>,
                      kpi_slots |-> <<>>, bridge_status |-> "ok",
                      last_update_global |-> None, b_sensors |-> <<>>,
                      session_sensors |-> {}, nodes |-> <<>>, last_meas |-> None])
    /\ UNCHANGED <<bridges, sensors, measurements, kpis, streams>>

\* the loop body from the KPI query of bridge b, the head of bridges_db, to
\* the end of step 3; tie is the order the database gives to KPI rows of
\* equal timestamp
GetDashboardDataKpis(i) ==
    /\ Running(i, "get_dashboard_data", "query_kpis")
    /\ LET c == calls[i]
           b == Head(c.bridges_db)
       IN  \E tie \in Perms(Tied(KpisOf(b.id))) :
              LET rows == OrderByTimestampDesc(KpisOf(b.id), tie)
                  kpis_db == [j \in DOMAIN rows |->
                                 Loaded(Range(c.kpis_db), rows[j], KpiKey)]
              IN  Continue(i, [c EXCEPT
                     !.pc = "load_sensors",
                     !.kpis_db = kpis_db,
                     !.kpi_slots = [structuralHealth |-> KpiSlot(b.id, kpis_db, StructuralHealth),
                                    accelZ |-> KpiSlot(b.id, kpis_db, AccelZ),
                                    accelGlob |-> KpiSlot(b.id, kpis_db, AccelGlob),
                                    aiAnalysis |-> KpiSlot(b.id, kpis_db, AiAnalysis)],
                     !.bridge_status = FoldStatus("ok", KpiStatuses(b.id, kpis_db)),
                     !.last_update_global = None,
                     !.nodes = <<>>])
    /\ UNCHANGED <<bridges, sensors, measurements, kpis, streams>>

\* c with bridge_obj appended to dashboard_data: the handler returns after
\* the last bridge and otherwise goes on to the next one
DashboardAppend(i, c) ==
    LET data == Append(c.dashboard_data,
                       BridgeObj(Head(c.bridges_db), c.kpi_slots, c.bridge_status,
                                 c.last_update_global, c.nodes))
    IN  IF Len(c.bridges_db) = 1
        THEN Answer(i, Returned("get_dashboard_data", None, data))
        ELSE Continue(i, [c EXCEPT !.pc = "query_kpis",
                                   !.bridges_db = Tail(@),
                                   !.dashboard_data = data])

\* b.sensors is loaded on its first use; sensor_seq is the order in which the
\* database returns the rows
GetDashboardDataSensors(i) ==
    /\ Running(i, "get_dashboard_data", "load_sensors")
    /\ LET c == calls[i]
           b == Head(c.bridges_db)
       IN  \E sensor_seq \in Perms(SensorsOf(b.id)) :
              LET b_sensors == [j \in DOMAIN sensor_seq |->
                                   Loaded(c.session_sensors, sensor_seq[j], SensorKey)]
                  next == [c EXCEPT !.b_sensors = b_sensors,
                                    !.session_sensors = @ \cup Range(b_sensors),
                                    !.pc = "query_measurement"]
              IN  IF b_sensors = <<>> THEN DashboardAppend(i, next)
                  ELSE Continue(i, next)
    /\ UNCHANGED <<bridges, sensors, measurements, kpis, streams>>

\* one pass of the loop over b.sensors, from the measurement query of sensor
\* s on
GetDashboardDataMeasurement(i) ==
    /\ Running(i, "get_dashboard_data", "query_measurement")
    /\ LET c == calls[i]
           s == Head(c.b_sensors)
           last_meas == LastMeasurement(s.id, c.last_meas)
           node_obj == NodeObj(s, last_meas)
           next == [c EXCEPT
                      !.last_meas = last_meas,
                      !.last_update_global =
                          IF last_meas # None
                             /\ (@ = None \/ KeyLess(DtKey(@[1]), DtKey(last_meas[1].ts)))
                          THEN Some(last_meas[1].ts) ELSE @,
                      !.bridge_status = WorseStatus(@, node_obj.status),
                      !.nodes = Append(@, node_obj),
                      !.b_sensors = Tail(@)]
       IN  IF Len(c.b_sensors) = 1 THEN DashboardAppend(i, next)
           ELSE Continue(i, next)
    /\ UNCHANGED <<bridges, sensors, measurements, kpis, streams>>

----------------------------------------------------------------------------
(* Trend summary: GET /summary/{resource_id} *)

\* .limit(144) of both queries
TrendLimit == 144

\* known_kpi_types, in list order
KnownKpiTypes == <<StructuralHealth, AccelGlob, AccelX, AccelY, AiAnalysis,
                   NaturalFreq>>

\* the first known type whose "-<type>" suffix ends the resource id, or None
TargetType(resource_id) ==
    LET idx == {i \in DOMAIN KnownKpiTypes :
                   EndsWith(resource_id, <<"-">> \o KnownKpiTypes[i])}
    IN  IF idx = {} THEN None
        ELSE Some(KnownKpiTypes[CHOOSE i \in idx : \A j \in idx : i <= j])

\* the chart points of the rows of a query, oldest first
TrendPoints(rows, Point(_)) ==
    LET rev == Reversed(rows)
    IN  [i \in 1..Len(rev) |-> Point(rev[i])]

MeasurementPoint(m) ==
    [t |-> HourMinute(m.ts), v |-> [x |-> m.acc_x, y |-> m.acc_y, z |-> m.acc_z]]

\* the chart point of a KPI row that has a timestamp
KpiPoint(target_type, k) ==
    LET val == IF target_type = AiAnalysis THEN k.confidence ELSE k.value
    IN  [t |-> HourMinute(k.timestamp[1]), v |-> IF val # None THEN val[1] ELSE 0]

\* resource_id without its "-<type>" suffix, or "" when no known type ends it
TargetBridgeId(resource_id) ==
    LET target_type == TargetType(resource_id)
    IN  IF target_type = None THEN <<>>
        ELSE SubSeq(resource_id, 1, Len(resource_id) - (Len(target_type[1]) + 1))

\* the kpis rows the handler's second query filters
KpiHistory(resource_id) ==
    IF TargetBridgeId(resource_id) # <<>> /\ TargetType(resource_id) # None
    THEN {k \in kpis : /\ k.bridge_id = TargetBridgeId(resource_id)
                       /\ k.kpi_type = TargetType(resource_id)[1]}
    ELSE {}

\* the rows of the handler's second query, newest first
KpiQuery(resource_id, tie) ==
    Limit(OrderByTimestampDesc(KpiHistory(resource_id), tie), TrendLimit)

\* GET /summary/{resource_id}: the handler from its query of the measurements
\* to its next statement: it returns their points, or the empty list when the
\* id names no KPI series, or goes on to query the KPI rows
GetTrendSummary(resource_id) ==
    LET ms == Limit(OrderByTsDesc(MeasurementsOf(resource_id)), TrendLimit)
    IN  /\ IF ms # <<>>
           THEN /\ resp' = Returned("get_trend_summary", resource_id,
                                    TrendPoints(ms, MeasurementPoint))
                /\ UNCHANGED calls
           ELSE IF TargetBridgeId(resource_id) # <<>> /\ TargetType(resource_id) # None
           THEN Begin([op |-> "get_trend_summary", pc |-> "query_kpis",
                       req |-> resource_id])
           ELSE /\ resp' = Returned("get_trend_summary", resource_id, <<>>)
                /\ UNCHANGED calls
        /\ UNCHANGED <<bridges, sensors, measurements, kpis, streams>>

\* the query of the KPI rows and the loop over them; k.timestamp.strftime on
\* a row whose timestamp is None raises AttributeError; tie is the order the
\* database gives to rows of equal timestamp
GetTrendSummaryKpis(i) ==
    /\ Running(i, "get_trend_summary", "query_kpis")
    /\ LET c == calls[i]
       IN  \E tie \in Perms(Tied(KpiHistory(c.req))) :
              LET kpis_db == KpiQuery(c.req, tie)
              IN  IF \E k \in Range(kpis_db) : k.timestamp = None
                  THEN Answer(i, ServerError(c.op, c.req, "AttributeError"))
                  ELSE Answer(i, Returned(c.op, c.req,
                          TrendPoints(kpis_db,
                                      LAMBDA k : KpiPoint(TargetType(c.req)[1], k))))
    /\ UNCHANGED <<bridges, sensors, measurements, kpis, streams>>
----------------------------------------------------------------------------
(* The values the requests and the DataFlow rows are drawn from *)

NameRio == <<"R","i","o"," ","1">>
NameLargo == <<"P","u","e","n","t","e"," ","L","a","r","g","o">>
NameRioDash == <<"r","i","o","-","1">>
IdRio == <<"b","r","-","r","i","o","1">>
IdLargo == <<"b","r","-","p","u","e","n","t","e","l","a">>
IdB1 == <<"b","1">>
NameNuble == <<"R","í","o"," ","Ñ","u","b","l","e"," ","2","²">>
IdNuble == <<"b","r","-","r","í","o","ñ","u","b","l","e">>
SensorS1 == <<"s","1">>
SensorS2 == <<"s","2">>
Img == <<"i","m","g">>


LocMaule == [region |-> "Maule", lat |-> -35, lng |-> -71]
LocBiobio == [region |-> "Biobio", lat |-> -37, lng |-> -73]
LocNoLat == [region |-> "Maule"]

T1 == <<2024, 1, 1, 23, 59, 0, 0>>
T2 == <<2024, 1, 3, 0, 0, 30, 0>>

BridgePayloads ==
    {[name |-> NameRio, location |-> LocMaule, image_data |-> None, id |-> None]}

ConfigN1 == [alias |-> "N1", x |-> 1, y |-> 2,
             config |-> [odr |-> 125, range |-> 2, filter |-> "high-pass"]]
ConfigN2 == [alias |-> "N2", x |-> 3, y |-> 4,
             config |-> [odr |-> 250, range |-> 4, filter |-> "low-pass"]]

TargetRio == [bridge_info |-> [name |-> NameRio, location |-> LocMaule],
              bridge_id |-> None]
TargetB1 == [bridge_info |-> [name |-> NameRio, location |-> LocMaule],
             bridge_id |-> Some(IdB1)]
TargetLargoNoLat == [bridge_info |-> [name |-> NameLargo, location |-> LocNoLat],
                     bridge_id |-> None]

SensorPayload(i, v, t) ==
    [id |-> i, alias |-> v.alias, bridge_info |-> t.bridge_info,
     bridge_id |-> t.bridge_id, x |-> v.x, y |-> v.y, config |-> v.config,
     image_data |-> None]

SensorPayloads ==
    {SensorPayload(SensorS1, ConfigN1, TargetRio),
     SensorPayload(SensorS1, ConfigN2, TargetB1),
     SensorPayload(SensorS1, ConfigN2, TargetLargoNoLat)}

HealthUpdates ==
    {[health_battery |-> Some(55), health_rssi |-> Some(-80), last_seen |-> Some(T1),
      status |-> Some("warn")]}

MeasurementRow(ts, sensor_id, a, battery, rssi) ==
    [ts |-> ts, sensor_id |-> sensor_id, acc_x |-> a, acc_y |-> a + 1,
     acc_z |-> a + 2, temp |-> a + 20, battery |-> battery, rssi |-> rssi]

MeasurementRows ==
    {MeasurementRow(T1, SensorS1, 1, Some(90), Some(-70))}

\* a kpis row as the writer gives it; timestamp is None or Some(datetime)
KpiRow(timestamp, bridge_id, kpi_type, value, text_value, status, confidence) ==
    [timestamp |-> timestamp, bridge_id |-> bridge_id, kpi_type |-> kpi_type,
     value |-> value, text_value |-> text_value, status |-> status,
     confidence |-> confidence]

KpiRows ==
    {KpiRow(Some(T1), IdRio, StructuralHealth, Some(90), None, Some("ok"), None)}

\* the worker threads
Workers == 1..MaxInFlight

\* a handler of POST /admin/bridge in progress executes its next statement
BridgeUpsertStep(i) ==
    \/ CreateOrUpdateBridgeCommit(i)
    \/ CreateOrUpdateBridgeRefresh(i)

\* a handler of POST /admin/sensor in progress executes its next statement
SensorUpsertStep(i) ==
    \/ CreateOrUpdateSensorCommitBridge(i)
    \/ CreateOrUpdateSensorQuery(i)
    \/ CreateOrUpdateSensorCommit(i)
    \/ CreateOrUpdateSensorReturn(i)

\* a handler of DELETE /admin/bridge/{bridge_id} in progress executes its
\* next statement
BridgeDeleteStep(i) ==
    \/ DeleteBridgeLoadSensors(i)
    \/ DeleteBridgeLoadMeasurements(i)
    \/ DeleteBridgeLoadKpis(i)
    \/ DeleteBridgeCommit(i)

\* a handler of DELETE /admin/sensor/{sensor_id} in progress executes its
\* next statement
SensorDeleteStep(i) ==
    \/ DeleteSensorLoadMeasurements(i)
    \/ DeleteSensorCommit(i)

\* a handler of GET / in progress executes its next statement
DashboardStep(i) ==
    \/ GetDashboardDataKpis(i)
    \/ GetDashboardDataSensors(i)
    \/ GetDashboardDataMeasurement(i)

\* the admin API and the DataFlow writer
Next ==
    \/ \E p \in BridgePayloads : CreateOrUpdateBridge(p)
    \/ \E p \in SensorPayloads : CreateOrUpdateSensor(p)
    \/ \E b \in {IdRio, IdB1} : DeleteBridge(b)
    \/ DeleteSensor(SensorS1)
    \/ \E i \in Workers : BridgeUpsertStep(i)
    \/ \E i \in Workers : SensorUpsertStep(i)
    \/ \E i \in Workers : BridgeDeleteStep(i)
    \/ \E i \in Workers : SensorDeleteStep(i)
    \/ \E m \in MeasurementRows : InsertMeasurement(m)
    \/ \E k \in KpiRows : NextKpiId <= MaxKpiId /\ InsertKpi(k)
    \/ \E h \in HealthUpdates : UpdateSensorHealth(SensorS1, h)

Spec == Init /\ [][Next]_vars

\* the admin API and a DataFlow writer that inserts measurements of existing
\* sensors and KPIs of existing bridges only
NextIntegrity ==
    \/ \E p \in BridgePayloads : CreateOrUpdateBridge(p)
    \/ \E p \in SensorPayloads : CreateOrUpdateSensor(p)
    \/ \E b \in {IdRio, IdB1} : DeleteBridge(b)
    \/ DeleteSensor(SensorS1)
    \/ \E i \in Workers : BridgeUpsertStep(i)
    \/ \E i \in Workers : SensorUpsertStep(i)
    \/ \E i \in Workers : BridgeDeleteStep(i)
    \/ \E i \in Workers : SensorDeleteStep(i)
    \/ \E m \in MeasurementRows :
          SensorById(m.sensor_id) # {} /\ InsertMeasurement(m)
    \/ \E k \in KpiRows :
          BridgeById(k.bridge_id) # {} /\ NextKpiId <= MaxKpiId /\ InsertKpi(k)
    \/ \E h \in HealthUpdates : UpdateSensorHealth(SensorS1, h)

SpecIntegrity == Init /\ [][NextIntegrity]_vars

----------------------------------------------------------------------------
(* Properties of the admin endpoints *)

\* the bridge ids the names of the requests are expected to derive
ExpectedId(name) ==
    CASE name = NameRio -> IdRio
      [] name = NameRioDash -> IdRio
      [] name = NameLargo -> IdLargo
      [] name = NameNuble -> IdNuble

\* the ids of the sensors attached to a bridge in the current state
SensorIdsOf(bridge_id) == {s.id : s \in {t \in sensors : t.bridge_id = bridge_id}}

\* C1: after a successful DELETE /admin/bridge/{bridge_id} on an existing
\* bridge no bridge, sensor or KPI of that id and no measurement of one of
\* its sensors is left, and the rows of every other bridge are exactly as
\* before.
C1_DeleteBridgeCascades ==
    [][(/\ resp'.op = "delete_bridge" /\ resp'.code = 200
        /\ \E b \in bridges : b.id = resp'.req) =>
        LET id == resp'.req
            gone == SensorIdsOf(id)
        IN  /\ \A b \in bridges' : b.id # id
            /\ \A t \in sensors' : t.bridge_id # id
            /\ \A k \in kpis' : k.bridge_id # id
            /\ \A m \in measurements' : m.sensor_id \notin gone
            /\ \A b \in bridges : b.id # id => b \in bridges'
            /\ \A t \in sensors : t.bridge_id # id => t \in sensors'
            /\ \A k \in kpis : k.bridge_id # id => k \in kpis'
            /\ \A m \in measurements : m.sensor_id \notin gone => m \in measurements'
            /\ bridges' \subseteq bridges /\ sensors' \subseteq sensors
            /\ kpis' \subseteq kpis /\ measurements' \subseteq measurements]_vars

\* the location of a request carries region, lat and lng
WellFormed(location) == {"region", "lat", "lng"} \subseteq DOMAIN location

\* the target bridge id of a POST /admin/sensor request
TargetOf(p) ==
    IF p.bridge_id # None /\ p.bridge_id[1] # <<>> THEN p.bridge_id[1]
    ELSE ExpectedId(p.bridge_info.name)

\* C3: POST /admin/sensor with a usable bridge_info answers 200 with the
\* sensor id and the target bridge id.  When the handler commits the sensor,
\* exactly one sensor of the payload's id exists, attached to the target
\* bridge and carrying the payload's alias, x, y, odr and range; a bridge of
\* the target id exists; a sensor that existed keeps its measurements, health
\* fields and status, and no other sensor changes.
C3_SensorUpsert ==
    /\ [][(/\ resp'.op = "create_or_update_sensor"
           /\ WellFormed(resp'.req.bridge_info.location)) =>
              /\ resp'.code = 200
              /\ resp'.body.bridge_id = TargetOf(resp'.req)
              /\ resp'.body.sensor_id = resp'.req.id]_vars
    /\ [][\A i \in Workers :
            (/\ calls[i].op = "create_or_update_sensor" /\ calls[i].pc = "commit"
             /\ calls'[i].pc = "return") =>
            LET p == calls[i].req
                target == TargetOf(p)
                old == {t \in sensors : t.id = p.id}
                new == {t \in sensors' : t.id = p.id}
            IN  /\ Cardinality(new) = 1
                /\ Cardinality({b \in bridges' : b.id = target}) = 1
                /\ bridges' = bridges
                /\ \A t \in new :
                      /\ t.bridge_id = target
                      /\ t.alias = p.alias /\ t.pos_x = p.x /\ t.pos_y = p.y
                      /\ t.odr = p.config.odr /\ t.range_g = p.config.range
                      /\ \A o \in old :
                            /\ t.health_battery = o.health_battery
                            /\ t.health_rssi = o.health_rssi
                            /\ t.last_seen = o.last_seen
                            /\ t.status = o.status
                /\ Cardinality(old) <= 1
                /\ {t \in sensors' : t.id # p.id} = {t \in sensors : t.id # p.id}
                /\ measurements' = measurements
                /\ kpis' = kpis]_vars

\* every sensor and KPI names an existing bridge, every measurement an
\* existing sensor
ReferentialIntegrity ==
    /\ \A t \in sensors : \E b \in bridges : b.id = t.bridge_id
    /\ \A k \in kpis : \E b \in bridges : b.id = k.bridge_id
    /\ \A m \in measurements : \E t \in sensors : t.id = m.sensor_id

\* C7: referential integrity holds in every reachable state, and a successful
\* DELETE /admin/sensor/{sensor_id} removes the sensor with all of its
\* measurements and leaves the bridges, the KPIs, the other sensors and
\* their measurements unchanged.
C7_ReferentialIntegrity ==
    /\ []ReferentialIntegrity
    /\ [][(resp'.op = "delete_sensor" /\ resp'.code = 200) =>
            LET id == resp'.req
            IN  /\ \E t \in sensors : t.id = id
                /\ \A t \in sensors' : t.id # id
                /\ \A m \in measurements' : m.sensor_id # id
                /\ sensors' = {t \in sensors : t.id # id}
                /\ measurements' = {m \in measurements : m.sensor_id # id}
                /\ bridges' = bridges
                /\ kpis' = kpis]_vars

----------------------------------------------------------------------------
(* The bridge upsert under a wider set of requests *)

WideBridgePayloads ==
    {[name |-> NameRio, location |-> LocMaule, image_data |-> None, id |-> None],
     [name |-> NameRioDash, location |-> LocMaule, image_data |-> Some(Img),
      id |-> Some(<<>>)],
     [name |-> NameRio, location |-> LocBiobio, image_data |-> None,
      id |-> Some(IdRio)],
     [name |-> NameLargo, location |-> LocNoLat, image_data |-> None, id |-> None],
     [name |-> NameNuble, location |-> LocBiobio, image_data |-> None, id |-> None]}

NextBridge ==
    \/ \E p \in WideBridgePayloads : CreateOrUpdateBridge(p)
    \/ \E i \in Workers : BridgeUpsertStep(i)
    \/ DeleteBridge(IdRio)
    \/ \E i \in Workers : BridgeDeleteStep(i)
    \/ CreateOrUpdateSensor(SensorPayload(SensorS1, ConfigN1, TargetRio))
    \/ \E i \in Workers : SensorUpsertStep(i)

SpecBridge == Init /\ [][NextBridge]_vars

\* the primary key of the bridges table is unique
OneBridgePerId == \A b \in bridges : \A c \in bridges : b.id = c.id => b = c

\* the bridge id of a POST /admin/bridge request
BridgeIdOf(p) ==
    IF p.id # None /\ p.id[1] # <<>> THEN p.id[1] ELSE ExpectedId(p.name)

\* C2: POST /admin/bridge with a usable location answers 200 with the id
\* (payload.id when given, otherwise derived from the name).  When the
\* handler commits, a bridge of that id has been created from the payload if
\* there was none, and otherwise has the payload's name, region, lat and lng;
\* there is exactly one bridge per id, and no other bridge, no sensor, KPI or
\* measurement changes.
C2_BridgeUpsert ==
    /\ []OneBridgePerId
    /\ [][(/\ resp'.op = "create_or_update_bridge"
           /\ WellFormed(resp'.req.location)) =>
              /\ resp'.code = 200
              /\ resp'.body.bridge_id = BridgeIdOf(resp'.req)]_vars
    /\ [][\A i \in Workers :
            (/\ calls[i].op = "create_or_update_bridge" /\ calls[i].pc = "commit"
             /\ calls'[i].pc = "refresh") =>
            LET p == calls[i].req
                id == BridgeIdOf(p)
                old == {b \in bridges : b.id = id}
                new == {b \in bridges' : b.id = id}
            IN  /\ Cardinality(new) = 1
                /\ \A b \in new :
                      /\ b.name = p.name
                      /\ b.region = p.location.region
                      /\ b.lat = p.location.lat
                      /\ b.lng = p.location.lng
                      /\ old = {} => b.image_data = p.image_data
                      /\ \A o \in old : b.admin_status = o.admin_status
                /\ {b \in bridges' : b.id # id} = {b \in bridges : b.id # id}
                /\ sensors' = sensors
                /\ measurements' = measurements
                /\ kpis' = kpis]_vars

----------------------------------------------------------------------------
(* The dashboard and the links it emits *)

DashSensorPayloads ==
    {SensorPayload(SensorS1, ConfigN1, TargetRio),
     SensorPayload(SensorS1, ConfigN2, TargetB1)}

DashMeasurementRows ==
    {MeasurementRow(T2, SensorS1, 4, None, None)}

DashKpiRows ==
    {KpiRow(Some(T2), IdRio, StructuralHealth, Some(70), None, Some("alert"), None),
     KpiRow(Some(T1), IdRio, AccelZ, Some(5), None, None, None)}

\* the ids of a dashboard response that are backed by stored rows: the id
\* of a KPI slot that does not show its default, and the id of a node whose
\* telemetry is not the default
EmittedIds(body) ==
    UNION {{k.id : k \in {q \in {body[i].kpis.structuralHealth, body[i].kpis.accelZ,
                                  body[i].kpis.accelGlob, body[i].kpis.aiAnalysis} :
                             \A t \in Range(KpiSlots) :
                                 q # DefaultKpi(body[i].id, t)}}
           \cup {body[i].nodes[j].id : j \in {n \in DOMAIN body[i].nodes :
                    body[i].nodes[n].telemetry #
                        [accel_rms |-> [x |-> 0, y |-> 0, z |-> 0], sensorTemp |-> 0]}} :
           i \in DOMAIN body}

\* the client opens the trend of an id shown on the dashboard
FollowLink ==
    /\ resp.op = "get_dashboard_data"
    /\ \E id \in EmittedIds(resp.body) : GetTrendSummary(id)

NextDash ==
    \/ \E p \in DashSensorPayloads : CreateOrUpdateSensor(p)
    \/ \E i \in Workers : SensorUpsertStep(i)
    \/ \E m \in DashMeasurementRows : InsertMeasurement(m)
    \/ \E k \in DashKpiRows : NextKpiId <= MaxKpiId /\ InsertKpi(k)
    \/ GetDashboardData
    \/ \E i \in Workers : DashboardStep(i)
    \/ FollowLink
    \/ \E i \in Workers : GetTrendSummaryKpis(i)

SpecDash == Init /\ [][NextDash]_vars

StatusSensorPayloads ==
    {SensorPayload(SensorS1, ConfigN1, TargetRio),
     SensorPayload(SensorS2, ConfigN2, TargetRio)}

StatusHealthUpdates ==
    {[sensor_id |-> SensorS1,
      h |-> [health_battery |-> Some(55), health_rssi |-> Some(-80),
             last_seen |-> Some(T1), status |-> Some("warn")]],
     [sensor_id |-> SensorS2,
      h |-> [health_battery |-> Some(5), health_rssi |-> Some(-99),
             last_seen |-> Some(T2), status |-> Some("alert")]]}

StatusKpiRows ==
    {KpiRow(Some(T2), IdRio, AiAnalysis, None, Some("grieta"), Some("alert"), Some(80)),
     KpiRow(Some(T1), IdRio, StructuralHealth, Some(60), None, Some("warn"), None)}

\* the dashboard over sensors and KPIs of every status
NextStatus ==
    \/ \E p \in StatusSensorPayloads : CreateOrUpdateSensor(p)
    \/ \E i \in Workers : SensorUpsertStep(i)
    \/ \E u \in StatusHealthUpdates : UpdateSensorHealth(u.sensor_id, u.h)
    \/ \E k \in StatusKpiRows : NextKpiId <= MaxKpiId /\ InsertKpi(k)
    \/ GetDashboardData
    \/ \E i \in Workers : DashboardStep(i)

SpecStatus == Init /\ [][NextStatus]_vars

----------------------------------------------------------------------------
(* Properties of the dashboard *)

\* datetime a is earlier than datetime b
DtBefore(a, b) == \E i \in 1..7 : a[i] < b[i] /\ \A j \in 1..(i - 1) : a[j] = b[j]

ZeroTelemetry == [accel_rms |-> [x |-> 0, y |-> 0, z |-> 0], sensorTemp |-> 0]

\* row q has a timestamp and row k has none or an earlier one
LaterRow(q, k) ==
    /\ q.timestamp # None
    /\ k.timestamp = None \/ DtBefore(k.timestamp[1], q.timestamp[1])

\* the KPI slot shown for (bridge_id, k_type) is the default when the bridge
\* has no row of the type, and otherwise taken from a row of the type that no
\* other row of the type is later than
SlotShowsLatest(bridge_id, k_type, shown) ==
    LET rows == {k \in kpis : k.bridge_id = bridge_id /\ k.kpi_type = k_type}
    IN  IF rows = {} THEN shown = DefaultKpi(bridge_id, k_type)
        ELSE \E k \in rows :
                /\ \A q \in rows : ~LaterRow(q, k)
                /\ shown.id = bridge_id \o <<"-">> \o k_type
                /\ shown.status = (IF k.status \in {None, Some("")} THEN "ok"
                                   ELSE k.status[1])
                /\ shown.lastModelUpdate = (IF k.timestamp = None THEN None
                                            ELSE Some(IsoFormat(k.timestamp[1])))
                /\ IF k_type = AiAnalysis
                   THEN shown.text = k.text_value /\ shown.confidence = k.confidence
                   ELSE /\ shown.val = (IF k.value = None THEN 0 ELSE k.value[1])
                        /\ shown.score = shown.val

\* the telemetry of a node is that of the sensor's latest measurement, or all
\* zeros when the sensor has none
NodeShowsLatest(node) ==
    LET ms == {m \in measurements : m.sensor_id = node.id}
    IN  IF ms = {} THEN node.telemetry = ZeroTelemetry
        ELSE \E m \in ms :
                /\ \A q \in ms : ~DtBefore(m.ts, q.ts)
                /\ node.telemetry = [accel_rms |-> [x |-> m.acc_x, y |-> m.acc_y,
                                                    z |-> m.acc_z],
                                     sensorTemp |-> m.temp]

\* C4: GET / returns one entry per stored bridge, each listing exactly the
\* sensors of that bridge; a node's telemetry comes from the sensor's latest
\* measurement (zeros without one) and each KPI slot from the bridge's latest
\* row of that type (the default without one).
C4_DashboardShowsLatest ==
    resp.op = "get_dashboard_data" =>
        /\ Len(resp.body) = Cardinality(bridges)
        /\ {resp.body[i].id : i \in DOMAIN resp.body} = {b.id : b \in bridges}
        /\ \A i \in DOMAIN resp.body :
              LET e == resp.body[i]
                  mine == {s \in sensors : s.bridge_id = e.id}
              IN  /\ Len(e.nodes) = Cardinality(mine)
                  /\ {e.nodes[j].id : j \in DOMAIN e.nodes} = {s.id : s \in mine}
                  /\ \A j \in DOMAIN e.nodes : NodeShowsLatest(e.nodes[j])
                  /\ SlotShowsLatest(e.id, StructuralHealth, e.kpis.structuralHealth)
                  /\ SlotShowsLatest(e.id, AccelZ, e.kpis.accelZ)
                  /\ SlotShowsLatest(e.id, AccelGlob, e.kpis.accelGlob)
                  /\ SlotShowsLatest(e.id, AiAnalysis, e.kpis.aiAnalysis)

\* C8: in a dashboard response the status of an entry is the worst of the
\* statuses of its four KPI slots and of its nodes (alert over warn over ok),
\* and a node carries exactly one HEALTH alarm when its status is "alert" and
\* no alarm otherwise.
C8_WorstStatus ==
    resp.op = "get_dashboard_data" =>
        \A i \in DOMAIN resp.body :
            LET e == resp.body[i]
                found == {e.kpis.structuralHealth.status, e.kpis.accelZ.status,
                          e.kpis.accelGlob.status, e.kpis.aiAnalysis.status}
                         \cup {e.nodes[j].status : j \in DOMAIN e.nodes}
            IN  /\ e.status = "alert" <=> "alert" \in found
                /\ e.status = "warn" <=> ("alert" \notin found /\ "warn" \in found)
                /\ e.status = "ok" <=> ("alert" \notin found /\ "warn" \notin found)
                /\ \A j \in DOMAIN e.nodes :
                      IF e.nodes[j].status = "alert"
                      THEN /\ Len(e.nodes[j].alarms) = 1
                           /\ e.nodes[j].alarms[1].type = "HEALTH"
                      ELSE e.nodes[j].alarms = <<>>

\* C8 witness: an entry shown in alert has its AI slot in alert and its
\* structuralHealth slot in warn, a node in warn listed after a node in alert
\* that carries a HEALTH alarm.
C8_Witness ==
    /\ resp.op = "get_dashboard_data"
    /\ \E i \in DOMAIN resp.body :
          /\ resp.body[i].status = "alert"
          /\ resp.body[i].kpis.aiAnalysis.status = "alert"
          /\ resp.body[i].kpis.structuralHealth.status = "warn"
          /\ Len(resp.body[i].nodes) = 2
          /\ resp.body[i].nodes[1].status = "alert"
          /\ Len(resp.body[i].nodes[1].alarms) = 1
          /\ resp.body[i].nodes[2].status = "warn"

\* C10: an id the dashboard shows for a KPI slot backed by stored rows, passed
\* to GET /summary/{resource_id}, gives the non-empty trend of that bridge and
\* KPI type, and the id of a node with measurements gives the non-empty trend
\* of that sensor.
C10_EmittedIdsResolve ==
    resp.op = "get_trend_summary" =>
        /\ \A b \in bridges : \A i \in DOMAIN KpiSlots :
              LET rows == {k \in kpis : /\ k.bridge_id = b.id
                                        /\ k.kpi_type = KpiSlots[i]}
              IN  (resp.req = b.id \o <<"-">> \o KpiSlots[i] /\ rows # {}) =>
                      /\ resp.code = 200
                      /\ resp.body # <<>>
                      /\ Len(resp.body) = Cardinality(rows)
        /\ \A s \in sensors :
              LET ms == {m \in measurements : m.sensor_id = s.id}
              IN  (resp.req = s.id /\ ms # {}) =>
                      /\ resp.code = 200
                      /\ resp.body # <<>>
                      /\ Len(resp.body) = Cardinality(ms)


----------------------------------------------------------------------------
(* The trend summary over histories longer than its limit *)

\* a sensor whose id reads like the KPI id of (br-rio1, accelGlob)
SensorK == IdRio \o <<"-">> \o AccelGlob

\* one multi-row INSERT of measurements: the statement fails as a whole, and
\* stores nothing, when a (ts, sensor_id) key is stored already or occurs
\* twice among its rows
InsertMeasurementBatch(rows) ==
    /\ {<<m.ts, m.sensor_id>> : m \in rows}
          \cap {<<q.ts, q.sensor_id>> : q \in measurements} = {}
    /\ Cardinality({<<m.ts, m.sensor_id>> : m \in rows}) = Cardinality(rows)
    /\ measurements' = measurements \cup rows
    /\ resp' = NoCall
    /\ UNCHANGED <<bridges, sensors, kpis, calls, streams>>

\* one multi-row INSERT of KPI rows; row i of the sequence gets the i-th
\* next id
InsertKpiBatch(rows) ==
    /\ kpis' = kpis \cup {[id |-> NextKpiId + (i - 1)] @@ rows[i] : i \in DOMAIN rows}
    /\ resp' = NoCall
    /\ UNCHANGED <<bridges, sensors, measurements, calls, streams>>

\* one row per minute from 2024-01-02 00:00:00 on, as many as the limit
BatchTs(i) == <<2024, 1, 2, (i - 1) \div 60, (i - 1) % 60, 0, 0>>

MeasurementBatch ==
    {MeasurementRow(BatchTs(i), SensorS1, i % 7, None, None) : i \in 1..TrendLimit}

KpiBatch ==
    [i \in 1..TrendLimit |->
        KpiRow(Some(BatchTs(i)), IdRio, AccelGlob, Some(i % 5), None, Some("ok"), None)]

TrendMeasurementRows ==
    {MeasurementRow(T2, SensorS1, 4, None, None),
     MeasurementRow(T1, SensorK, 7, None, None)}

\* single KPI rows: one newer and one older than the batch, one of the same
\* timestamp as the oldest batch row, one without timestamp, and rows of two
\* other types
TrendKpiRows ==
    {KpiRow(Some(T2), IdRio, AccelGlob, Some(3), None, Some("warn"), None),
     KpiRow(Some(T1), IdRio, AccelGlob, None, None, Some("ok"), None),
     KpiRow(Some(BatchTs(1)), IdRio, AccelGlob, Some(9), None, Some("ok"), None),
     KpiRow(Some(T2), IdRio, AiAnalysis, None, Some("grieta"), Some("alert"), Some(80)),
     KpiRow(Some(T1), IdRio, AccelZ, Some(5), None, Some("ok"), None),
     KpiRow(None, IdRio, AccelGlob, Some(6), None, Some("ok"), None)}

\* how many single KPI rows precede the batch
MaxTrendKpis == 1

TrendIds ==
    {SensorS1, SensorK, IdRio \o <<"-">> \o AiAnalysis, IdRio \o <<"-">> \o AccelZ,
     IdB1 \o <<"-">> \o AccelGlob}

\* the trend summary over rows of the DataFlow writer
NextTrend ==
    \/ \E m \in TrendMeasurementRows : InsertMeasurement(m)
    \/ InsertMeasurementBatch(MeasurementBatch)
    \/ \E k \in TrendKpiRows : NextKpiId <= MaxTrendKpis /\ InsertKpi(k)
    \/ NextKpiId <= MaxTrendKpis + 1 /\ InsertKpiBatch(KpiBatch)
    \/ \E id \in TrendIds : GetTrendSummary(id)
    \/ \E i \in Workers : GetTrendSummaryKpis(i)

SpecTrend == Init /\ [][NextTrend]_vars

----------------------------------------------------------------------------
(* Properties of the trend summary *)

\* info holds <<key, row id, point>> per row of a history; the result holds
\* <<rows of greater key, rows of equal key, point, row id>> per row
Ranked(info) ==
    {<<Cardinality({u \in info : KeyLess(t[1], u[1])}),
       Cardinality({u \in info : u[1] = t[1]}), t[3], t[2]>> : t \in info}

\* body[i], the point of rank k + 1 - i counted from the newest, is the point
\* of a row that may hold that rank, and no row is used twice
PlacedByRank(body, k, ranked) ==
    /\ \A i \in 1..k : \E g \in ranked :
          g[3] = body[i] /\ g[1] < k + 1 - i /\ k + 1 - i <= g[1] + g[2]
    /\ \A g \in ranked :
          Cardinality({i \in 1..k : /\ g[1] < k + 1 - i
                                    /\ k + 1 - i <= g[1] + g[2]
                                    /\ body[i] = g[3]})
             <= Cardinality({h \in ranked : h[1] = g[1] /\ h[3] = g[3]})

\* body is exactly the min(144, n) rows of greatest timestamp, oldest first
LatestOldestFirst(body, info) ==
    /\ Len(body) = Min(144, Cardinality(info))
    /\ PlacedByRank(body, Len(body), Ranked(info))

MeasurementInfo(S) ==
    {<<DtKey(m.ts), m.ts,
       [t |-> HourMinute(m.ts), v |-> [x |-> m.acc_x, y |-> m.acc_y, z |-> m.acc_z]]>> :
        m \in S}

KpiInfo(S, type) ==
    {<<NullableKey(k.timestamp), k.id,
       [t |-> IF k.timestamp = None THEN <<>> ELSE HourMinute(k.timestamp[1]),
        v |-> IF type = AiAnalysis
              THEN (IF k.confidence = None THEN 0 ELSE k.confidence[1])
              ELSE (IF k.value = None THEN 0 ELSE k.value[1])]>> : k \in S}

KnownTypeNames == {StructuralHealth, AccelGlob, AccelX, AccelY, AiAnalysis, NaturalFreq}

\* the <<bridge id, type>> readings of an id as "<bridge_id>-<kpi_type>"
KpiReadings(id) ==
    {<<SubSeq(id, 1, Len(id) - (Len(type) + 1)), type>> :
        type \in {ty \in KnownTypeNames :
                     Len(id) > Len(ty) + 1 /\ EndsWith(id, <<"-">> \o ty)}}

KpiSeries(reading) ==
    {k \in kpis : k.bridge_id = reading[1] /\ k.kpi_type = reading[2]}

\* C5: the trend summary answers with a list of at most 144 points: for a
\* sensor id that has measurements, exactly the min(144, n) measurements of
\* that sensor of greatest timestamp, oldest first; for a KPI id
\* "<bridge_id>-<kpi_type>" of known type (read as a sensor id first when
\* measurements carry it), exactly the min(144, n) most recent KPI rows of
\* that bridge and type, oldest first (confidence for aiAnalysis, value
\* otherwise, 0 for null); for any other id the empty list.
C5_TrendSummary ==
    resp.op = "get_trend_summary" =>
       /\ resp.code = 200
       /\ Len(resp.body) <= 144
       /\ IF MeasurementsOf(resp.req) # {}
          THEN LatestOldestFirst(resp.body,
                                 MeasurementInfo(MeasurementsOf(resp.req)))
          ELSE IF KpiReadings(resp.req) # {}
          THEN \A reading \in KpiReadings(resp.req) :
                  LatestOldestFirst(resp.body,
                                    KpiInfo(KpiSeries(reading), reading[2]))
          ELSE resp.body = <<>>

----------------------------------------------------------------------------
(* datetime.fromisoformat *)

\* the characters UTF-8 encodes in one byte (U+0060 cannot be written here)
AsciiChars ==
    {" ","!","\"","#","$","%","&","'","(",")","*","+",",","-",".","/",
     "0","1","2","3","4","5","6","7","8","9",":",";","<","=",">","?","@",
     "A","B","C","D","E","F","G","H","I","J","K","L","M","N","O","P","Q","R",
     "S","T","U","V","W","X","Y","Z","[","\\","]","^","_",
     "a","b","c","d","e","f","g","h","i","j","k","l","m","n","o","p","q","r",
     "s","t","u","v","w","x","y","z","{","|","}","~","\t","\n","\r","\f"}

\* the UTF-8 encoding the parser works on: an ASCII character is one byte,
\* a character of U+0080 .. U+00FF a lead byte and a continuation byte
RECURSIVE Utf8(_)
Utf8(s) ==
    IF s = <<>> THEN <<>>
    ELSE (IF Head(s) \in AsciiChars THEN <<Head(s)>> ELSE <<"lead", "cont">>)
            \o Utf8(Tail(s))

\* the byte at position i, counted from 0, of the NUL-terminated buffer b
At(b, i) == IF i >= 0 /\ i < Len(b) THEN b[i + 1] ELSE "NUL"

IsDigit(c) == c \in Range(DigitChars)
DigitValue(c) == (CHOOSE i \in 1..10 : DigitChars[i] = c) - 1

\* the n bytes from position i are digits
Digits(b, i, n) == \A k \in 0..(n - 1) : IsDigit(At(b, i + k))

\* the number written by the n digits from position i
RECURSIVE Num(_, _, _)
Num(b, i, n) ==
    IF n = 0 THEN 0 ELSE 10 * Num(b, i, n - 1) + DigitValue(At(b, i + n - 1))

\* the first position from p on that holds no digit
RECURSIVE SkipDigits(_, _)
SkipDigits(b, p) == IF IsDigit(At(b, p)) THEN SkipDigits(b, p + 1) ELSE p

IsLeap(year) == year % 4 = 0 /\ (year % 100 # 0 \/ year % 400 = 0)

DaysInMonth(year, month) ==
    IF month = 2 THEN (IF IsLeap(year) THEN 29 ELSE 28)
    ELSE IF month \in {4, 6, 9, 11} THEN 30 ELSE 31

\* days before January 1st of the year
DaysBeforeYear(year) ==
    LET y == year - 1
    IN  y * 365 + y \div 4 - y \div 100 + y \div 400

\* days of the year before the first day of the month
RECURSIVE DaysBeforeMonth(_, _)
DaysBeforeMonth(year, month) ==
    IF month = 1 THEN 0
    ELSE DaysBeforeMonth(year, month - 1) + DaysInMonth(year, month - 1)

\* the proleptic Gregorian ordinal of a date, 0001-01-01 being day 1
YmdToOrd(year, month, day) ==
    DaysBeforeYear(year) + DaysBeforeMonth(year, month) + day

\* the date of an ordinal
OrdToYmd(ordinal) ==
    LET n0 == ordinal - 1
        n400 == n0 \div 146097
        n1r == n0 % 146097
        n100 == n1r \div 36524
        n2r == n1r % 36524
        n4 == n2r \div 1461
        n3r == n2r % 1461
        n1 == n3r \div 365
        n == n3r % 365
        year == n400 * 400 + 1 + n100 * 100 + n4 * 4 + n1
    IN  IF n1 = 4 \/ n100 = 4 THEN <<year - 1, 12, 31>>
        ELSE LET month == CHOOSE m \in 1..12 :
                              /\ DaysBeforeMonth(year, m) <= n
                              /\ n < DaysBeforeMonth(year, m) + DaysInMonth(year, m)
             IN  <<year, month, n - DaysBeforeMonth(year, month) + 1>>

\* the date of an ISO year, week and weekday, or None when out of range
IsoToYmd(year, week, day) ==
    LET first == YmdToOrd(year, 1, 1)
        first_weekday == (first + 6) % 7
        week1_monday == first - first_weekday + (IF first_weekday > 3 THEN 7 ELSE 0)
        ordinal == week1_monday + (week - 1) * 7 + (day - 1)
        long_year == first % 7 = 4 \/ (first % 7 = 3 /\ IsLeap(year))
    IN  IF year < 1 \/ year > 9999 THEN None
        ELSE IF week <= 0 \/ week > 53 \/ (week = 53 /\ ~long_year) THEN None
        ELSE IF day <= 0 \/ day >= 8 THEN None
        ELSE IF ordinal < 1 \/ ordinal > YmdToOrd(9999, 12, 31) THEN None
        ELSE Some(OrdToYmd(ordinal))

\* the position of the date / time separator in a buffer of 7 bytes or more,
\* or None
SeparatorLocation(b) ==
    LET n == Len(b)
        idx == SkipDigits(b, 7)
    IN  IF n = 7 THEN Some(7)
        ELSE IF At(b, 4) = "-"
        THEN IF At(b, 5) = "W"
             THEN IF n < 8 THEN None
                  ELSE IF n > 8 /\ At(b, 8) = "-"
                  THEN IF n = 9 THEN None
                       ELSE IF n > 10 /\ IsDigit(At(b, 10)) THEN Some(8)
                       ELSE Some(10)
                  ELSE Some(8)
             ELSE Some(10)
        ELSE IF At(b, 4) = "W"
        THEN IF idx < 9 THEN Some(idx)
             ELSE IF idx % 2 = 0 THEN Some(7) ELSE Some(8)
        ELSE Some(8)

\* the date part b: YYYY-MM-DD, YYYYMMDD, YYYY-Www[-D] or YYYYWww[D]; the
\* result is Some(<<year, month, day>>) or None
ParseDate(b) ==
    LET n == Len(b)
        has_separator == At(b, 4) = "-"
        pos == IF has_separator THEN 5 ELSE 4
        year == Num(b, 0, 4)
    IN  IF ~Digits(b, 0, 4) THEN None
        ELSE IF At(b, pos) = "W"
        THEN IF ~Digits(b, pos + 1, 2) THEN None
             ELSE LET week == Num(b, pos + 1, 2)
                      dpos == IF has_separator THEN pos + 4 ELSE pos + 3
                  IN  IF pos + 3 >= n THEN IsoToYmd(year, week, 1)
                      ELSE IF has_separator /\ At(b, pos + 3) # "-" THEN None
                      ELSE IF ~Digits(b, dpos, 1) THEN None
                      ELSE IsoToYmd(year, week, Num(b, dpos, 1))
        ELSE IF ~Digits(b, pos, 2) THEN None
        ELSE IF has_separator /\ At(b, pos + 2) # "-" THEN None
        ELSE LET dpos == IF has_separator THEN pos + 3 ELSE pos + 2
             IN  IF ~Digits(b, dpos, 2) THEN None
                 ELSE Some(<<year, Num(b, pos, 2), Num(b, dpos, 2)>>)

\* the factor that scales k digits of a fraction to microseconds
RECURSIVE Correction(_)
Correction(k) == IF k >= 6 THEN 1 ELSE 10 * Correction(k + 1)

\* the fraction of a second at position p, at most 6 digits of it kept; the
\* result is Some(<<hour, minute, second, microsecond, rest>>), rest telling
\* that the buffer goes on after the fraction, or None
ParseFraction(b, end, p, vals) ==
    LET to_parse == Min(end - p, 6)
        after == SkipDigits(b, p + to_parse)
    IN  IF ~Digits(b, p, to_parse) THEN None
        ELSE Some(<<vals[1], vals[2], vals[3],
                    Num(b, p, to_parse) * Correction(to_parse),
                    At(b, after) # "NUL">>)

\* field i (0 hour, 1 minute, 2 second) of HH[:MM[:SS[.f+]]] or
\* HH[MM[SS[.f+]]] at position p of the part that ends before position end
RECURSIVE ParseFields(_, _, _, _, _, _)
ParseFields(b, end, i, p, has_separator, vals) ==
    IF ~Digits(b, p, 2) THEN None
    ELSE LET v == [vals EXCEPT ![i + 1] = Num(b, p, 2)]
             c == At(b, p + 2)
             sep == IF i = 0 THEN c = ":" ELSE has_separator
         IN  IF p + 3 >= end THEN Some(<<v[1], v[2], v[3], 0, c # "NUL">>)
             ELSE IF sep /\ c = ":"
             THEN IF i = 2 THEN ParseFraction(b, end, p + 3, v)
                  ELSE ParseFields(b, end, i + 1, p + 3, sep, v)
             ELSE IF c \in {".", ","} THEN ParseFraction(b, end, p + 3, v)
             ELSE IF ~sep
             THEN IF i = 2 THEN ParseFraction(b, end, p + 2, v)
                  ELSE ParseFields(b, end, i + 1, p + 2, sep, v)
             ELSE None

\* parse_hh_mm_ss_ff
ParseHhMmSsFf(b, start, end) == ParseFields(b, end, 0, start, TRUE, <<0, 0, 0>>)

\* the first position from p on that holds "Z", "+" or "-", or the length
RECURSIVE TzPosition(_, _)
TzPosition(b, p) ==
    IF p >= Len(b) \/ At(b, p) \in {"Z", "+", "-"} THEN p ELSE TzPosition(b, p + 1)

\* the time part from position start on, with its UTC offset; the result is
\* Some([time, tzinfo]) or None.  tzinfo is None, or Some(<<seconds,
\* microseconds>>) for timezone(timedelta(seconds=.., microseconds=..)).
ParseTime(b, start) ==
    LET n == Len(b)
        tz_pos == TzPosition(b, start)
        t == ParseHhMmSsFf(b, start, tz_pos)
        z == ParseHhMmSsFf(b, tz_pos + 1, n)
        sign == IF At(b, tz_pos) = "-" THEN -1 ELSE 1
        time == <<t[1][1], t[1][2], t[1][3], t[1][4]>>
    IN  IF t = None THEN None
        ELSE IF tz_pos = n
        THEN IF t[1][5] THEN None ELSE Some([time |-> time, tzinfo |-> None])
        ELSE IF At(b, tz_pos) = "Z"
        THEN IF tz_pos + 1 # n THEN None
             ELSE Some([time |-> time, tzinfo |-> Some(<<0, 0>>)])
        ELSE IF z = None THEN None
        ELSE IF z[1][5] THEN None
        ELSE LET offset == (z[1][1] * 60 + z[1][2]) * 60 + z[1][3]
             IN  IF offset = 0 THEN Some([time |-> time, tzinfo |-> Some(<<0, 0>>)])
                 ELSE IF offset >= 86400 THEN None
                 ELSE Some([time |-> time,
                            tzinfo |-> Some(<<sign * offset, sign * z[1][4]>>)])

\* datetime.fromisoformat(s): Some([naive, tzinfo]), naive holding the fields
\* year .. microsecond, or None where it raises ValueError
fromisoformat(s) ==
    LET b == Utf8(s)
        n == Len(b)
        loc == SeparatorLocation(b)
        d == ParseDate(SubSeq(b, 1, Min(loc[1], n)))
        width == IF At(b, loc[1]) = "lead" THEN 2 ELSE 1
        t == IF n > loc[1] THEN ParseTime(b, loc[1] + width)
             ELSE Some([time |-> <<0, 0, 0, 0>>, tzinfo |-> None])
    IN  IF n < 7 THEN None
        ELSE IF loc = None THEN None
        ELSE IF d = None THEN None
        ELSE IF t = None THEN None
        ELSE IF /\ d[1][1] >= 1 /\ d[1][1] <= 9999
                /\ d[1][2] >= 1 /\ d[1][2] <= 12
                /\ d[1][3] >= 1 /\ d[1][3] <= DaysInMonth(d[1][1], d[1][2])
                /\ t[1].time[1] <= 23 /\ t[1].time[2] <= 59 /\ t[1].time[3] <= 59
        THEN Some([naive |-> d[1] \o t[1].time, tzinfo |-> t[1].tzinfo])
        ELSE None

----------------------------------------------------------------------------
(* CSV export: GET /export/csv *)

RECURSIVE IntStr(_)
IntStr(n) == IF n < 10 THEN <<DigitChars[n + 1]>>
             ELSE IntStr(n \div 10) \o <<DigitChars[(n % 10) + 1]>>

\* str() of the float n.0
FloatStr(n) == (IF n < 0 THEN <<"-">> \o IntStr(0 - n) ELSE IntStr(n)) \o <<".", "0">>

CsvHeader == <<"T","i","m","e","s","t","a","m","p",",","A","c","c","e","l","_","X","(","g",")",",","A","c","c","e","l","_","Y","(","g",")",",","A","c","c","e","l","_","Z","(","g",")",",","B","a","t","t","e","r","y","(","%",")",",","R","S","S","I","(","d","B","m",")">> \o <<"\n">>

\* the line iter_csv yields for one row
CsvLine(row) ==
    LET bat == IF row.battery # None THEN FloatStr(row.battery[1]) ELSE <<>>
        rssi == IF row.rssi # None THEN FloatStr(row.rssi[1]) ELSE <<>>
    IN  IsoFormat(row.ts) \o <<",">> \o FloatStr(row.acc_x) \o <<",">>
            \o FloatStr(row.acc_y) \o <<",">> \o FloatStr(row.acc_z) \o <<",">>
            \o bat \o <<",">> \o rssi \o <<"\n">>

\* the rows of the handler's query when it is executed; a bound datetime is
\* compared by its fields year .. microsecond, whatever its tzinfo
CsvQuery(id, start_dt, end_dt) ==
    OrderByTsAsc({m \in measurements :
                     /\ m.sensor_id = id
                     /\ ~KeyLess(DtKey(m.ts), DtKey(start_dt.naive))
                     /\ ~KeyLess(DtKey(end_dt.naive), DtKey(m.ts))})

\* the slots of streams that hold no response being streamed
FreeSlots == {i \in DOMAIN streams : streams[i] = NoStream}

\* GET /export/csv: the handler up to its return.  An unparsable date runs
\* the except branch, whose JSONResponse is a name the module never imports:
\* NameError escapes the handler.  Otherwise the response starts to stream
\* from a free slot.
ExportCsv(id, start, end) ==
    LET req == [id |-> id, start |-> start, end |-> end]
        start_dt == fromisoformat(ReplaceChar(start, " ", "T"))
        end_dt == fromisoformat(ReplaceChar(end, " ", "T"))
    IN  /\ IF start_dt = None \/ end_dt = None
           THEN /\ resp' = ServerError("export_csv", req, "NameError")
                /\ streams' = streams
           ELSE /\ FreeSlots # {}
                /\ resp' = [op |-> "export_csv", req |-> req, code |-> 200,
                            body |-> "StreamingResponse"]
                /\ streams' = [streams EXCEPT
                                 ![CHOOSE i \in FreeSlots : \A j \in FreeSlots : i <= j] =
                                     [pc |-> "header", id |-> id,
                                      start_dt |-> start_dt[1], end_dt |-> end_dt[1],
                                      rows |-> <<>>, pos |-> 0, out |-> <<>>]]
        /\ UNCHANGED <<bridges, sensors, measurements, kpis, calls>>

\* one next() on iter_csv by the writer of the response in slot i: the
\* header; then the query is executed and its first row is yielded; then one
\* row per call; after the last row the generator returns and the response
\* is complete
IterCsvNext(i) ==
    /\ i \in DOMAIN streams
    /\ streams[i] # NoStream
    /\ LET stream == streams[i]
       IN  IF stream.pc = "header"
           THEN streams' = [streams EXCEPT ![i] = [stream EXCEPT !.pc = "query",
                                                                 !.out = <<CsvHeader>>]]
           ELSE IF stream.pc = "query"
           THEN \E rows \in {CsvQuery(stream.id, stream.start_dt, stream.end_dt)} :
                   IF rows = <<>>
                   THEN streams' = [streams EXCEPT ![i] = NoStream]
                   ELSE streams' = [streams EXCEPT ![i] =
                                       [stream EXCEPT !.pc = "rows", !.rows = rows,
                                                      !.pos = 1,
                                                      !.out = Append(@, CsvLine(rows[1]))]]
           ELSE IF stream.pos = Len(stream.rows)
                THEN streams' = [streams EXCEPT ![i] = NoStream]
                ELSE streams' = [streams EXCEPT ![i] =
                                    [stream EXCEPT !.pos = @ + 1,
                                        !.out = Append(@, CsvLine(stream.rows[stream.pos + 1]))]]
    /\ resp' = NoCall
    /\ UNCHANGED <<bridges, sensors, measurements, kpis, calls>>

TMid == <<2024, 1, 2, 10, 30, 5, 123000>>

CsvMeasurementRows ==
    {MeasurementRow(T1, SensorS1, 1, Some(90), Some(-70)),
     MeasurementRow(TMid, SensorS1, -3, None, Some(-71)),
     MeasurementRow(T2, SensorS1, 4, None, None),
     MeasurementRow(T1, SensorS2, 7, None, None)}

DateT1 == <<"2","0","2","4","-","0","1","-","0","1"," ","2","3",":","5","9">>
DateT2 == <<"2","0","2","4","-","0","1","-","0","3","T","0","0",":","0","0",":","3","0",".","0","0","0","Z">>
DateDay2 == <<"2","0","2","4","0","1","0","2">>
DateMid == <<"2","0","2","4","-","0","1","-","0","2","T","1","0",":","3","0",":","0","5",".","1","2","3">>
DateWeek1 == <<"2","0","2","4","-","W","0","1","-","1">>
DateNow == <<"n","o","w">>
DateFeb30 == <<"2","0","2","4","-","0","2","-","3","0">>

CsvRequests ==
    {[id |-> SensorS1, start |-> DateT1, end |-> DateT2],
     [id |-> SensorS1, start |-> DateDay2, end |-> DateT2],
     [id |-> SensorS1, start |-> DateWeek1, end |-> DateMid],
     [id |-> SensorS1, start |-> DateT2, end |-> DateT1],
     [id |-> SensorS2, start |-> DateT1, end |-> DateT1],
     [id |-> SensorS1, start |-> DateNow, end |-> DateT2],
     [id |-> SensorS1, start |-> DateT1, end |-> DateFeb30]}

\* exports served while the DataFlow writer inserts measurements
NextCsv ==
    \/ \E m \in CsvMeasurementRows : InsertMeasurement(m)
    \/ \E r \in CsvRequests : ExportCsv(r.id, r.start, r.end)
    \/ \E i \in 1..MaxStreams : IterCsvNext(i)

SpecCsv == Init /\ [][NextCsv]_vars

----------------------------------------------------------------------------
(* Properties of the CSV export *)

\* the line the export is to hold for a row: the ISO timestamp, the three
\* accelerations, then battery and RSSI, each left empty when null
ExpectedLine(row) ==
    IsoFormat(row.ts) \o <<",">> \o FloatStr(row.acc_x) \o <<",">>
        \o FloatStr(row.acc_y) \o <<",">> \o FloatStr(row.acc_z) \o <<",">>
        \o (IF row.battery = None THEN <<>> ELSE FloatStr(row.battery[1]))
        \o <<",">>
        \o (IF row.rssi = None THEN <<>> ELSE FloatStr(row.rssi[1]))
        \o <<"\n">>

\* what a response has streamed is the header followed by the lines of the
\* first pos rows of its query
StreamedSoFar(stream) ==
    /\ stream.pc = "header" => stream.out = <<>>
    /\ stream.pc = "query" => stream.out = <<CsvHeader>>
    /\ stream.pc = "rows" =>
          stream.out = <<CsvHeader>> \o
                [i \in 1..stream.pos |-> ExpectedLine(stream.rows[i])]

\* the rows of a query are exactly the stored measurements of the sensor
\* with start <= ts <= end, each once, in ascending order of ts
InRangeAscending(rows, id, start, end) ==
    /\ Range(rows) = {m \in measurements : /\ m.sensor_id = id
                                           /\ ~DtBefore(m.ts, start)
                                           /\ ~DtBefore(end, m.ts)}
    /\ \A i \in 1..(Len(rows) - 1) : DtBefore(rows[i].ts, rows[i + 1].ts)

\* C6: an export with valid dates streams the header first, then one line
\* at a time, exactly one per measurement of the requested sensor that is
\* stored when the query runs and has start <= ts <= end, in ascending order
\* of ts, and ends after the last of them; null battery and RSSI values are
\* empty fields.  This holds for every response, others being streamed at
\* the same time.
C6_CsvExport ==
    /\ [](\A i \in DOMAIN streams : streams[i] # NoStream => StreamedSoFar(streams[i]))
    /\ [][\A i \in DOMAIN streams :
            (streams[i] # NoStream /\ streams'[i] # streams[i]) =>
               /\ streams[i].pc = "query" =>
                     LET rows == IF streams'[i] = NoStream THEN <<>>
                                 ELSE streams'[i].rows
                     IN  InRangeAscending(rows, streams[i].id,
                                          streams[i].start_dt.naive,
                                          streams[i].end_dt.naive)
               /\ streams[i].pc = "rows" =>
                     /\ streams'[i] = NoStream => streams[i].pos = Len(streams[i].rows)
                     /\ streams'[i] # NoStream => streams'[i].rows = streams[i].rows
               /\ streams'[i] # NoStream =>
                     /\ Len(streams'[i].out) = Len(streams[i].out) + 1
                     /\ SubSeq(streams'[i].out, 1, Len(streams[i].out)) = streams[i].out
                     /\ streams'[i].id = streams[i].id]_vars

\* an export of sensor s1 over a range that leaves out one of its three
\* stored measurements has streamed the header and its two lines, one with
\* an empty battery field and a fraction of a second in its timestamp, while
\* a second export is being streamed
C6_Witness ==
    \E i, j \in DOMAIN streams :
        /\ i # j
        /\ streams[i] # NoStream /\ streams[j] # NoStream
        /\ streams[i].pc = "rows" /\ streams[i].id = SensorS1
        /\ Cardinality(MeasurementsOf(SensorS1)) = 3
        /\ MeasurementsOf(SensorS2) # {}
        /\ Len(streams[i].rows) = 2 /\ streams[i].pos = 2 /\ Len(streams[i].out) = 3
        /\ \E r \in 1..2 : /\ streams[i].rows[r].battery = None
                           /\ streams[i].rows[r].ts[7] # 0
        /\ streams[j].pc = "rows"

\* C9: an export whose start or end is not a valid ISO 8601 date answers 400
\* with a JSON error body, and nothing is queried or streamed.
C9_InvalidDateIs400 ==
    [][(/\ resp'.op = "export_csv"
        /\ \/ fromisoformat(ReplaceChar(resp'.req.start, " ", "T")) = None
           \/ fromisoformat(ReplaceChar(resp'.req.end, " ", "T")) = None)
          => (resp'.code = 400 /\ streams' = streams)]_vars

====
